---- MODULE Spec2Model ----
(***************************************************************************)
(* A model of the binary reader of wasm-interface-types                    *)
(* (crates/parser/src/lib.rs) and of the instruction encoder of the text   *)
(* front end (crates/text/src/ast/instr.rs).                               *)
(*                                                                         *)
(* A byte slice `&'a [u8]` is a view [off, len] into the buffer it borrows *)
(* from; a Parser is such a view plus the diagnostic offset `pos`.  Every  *)
(* Parse implementation is an operator from (buffer, parser) to a record   *)
(*   [ok, val, p, err]                                                     *)
(* where p is the parser as the call leaves it (the call takes &mut) and   *)
(* err = [at, kind, arg] is the Error it returns.                          *)
(*                                                                         *)
(* u32 and u64 values do not fit the checker's integers, so they are kept  *)
(* in limbs of 28 bits (four 7-bit LEB128 groups each):                    *)
(*   u64 = [lo, mid, hi]   = lo + 2^28 * mid + 2^56 * hi, hi < 2^8         *)
(*   u32 = [lo, hi]        = lo + 2^28 * hi,              hi < 2^4         *)
(***************************************************************************)
EXTENDS Integers, Sequences, FiniteSets, TLC

VARIABLES
    input,    \* the caller-owned buffer every slice borrows from
    parser,   \* the Parser the caller holds (or NoParser)
    sec,      \* the section iterator last returned by Parser::section
    func,     \* the Func last yielded by a Funcs iterator
    its,      \* the Instructions iterators created from func
    instr,    \* the text-side Instruction handed to the encoder
    vec,      \* the Vec<u8> the encoder writes to
    last,     \* the last call: its name, the state it was made in, its result
    hist      \* what the iterators have yielded so far

vars == <<input, parser, sec, func, its, instr, vec, last, hist>>

----------------------------------------------------------------------------
(* Limbs *)

Limb == 2^28
CONTINUATION_BIT == 128

Pow2(n) == CASE n = 0 -> 1 [] n = 7 -> 128 [] n = 14 -> 16384 [] n = 21 -> 2097152

U64Zero == [lo |-> 0, mid |-> 0, hi |-> 0]

\* result |= low_bits << shift, shift a multiple of 7 below 64; the bits
\* written are still clear, so the OR is an addition inside one limb.
OrShl(result, low_bits, shift) ==
    IF shift < 28 THEN [result EXCEPT !.lo = @ + low_bits * Pow2(shift)]
    ELSE IF shift < 56 THEN [result EXCEPT !.mid = @ + low_bits * Pow2(shift - 28)]
    ELSE [result EXCEPT !.hi = @ + low_bits * Pow2(shift - 56)]

\* n < u32::max_value() as u64: the bound taken one too low
FitsU32_Exclusive(n) == n.hi = 0 /\ n.mid < 16 /\ ~(n.mid = 15 /\ n.lo = Limb - 1)

\* n <= u32::max_value() as u64
FitsU32(n) == n.hi = 0 /\ n.mid < 16

\* n as u32
AsU32(n) == [lo |-> n.lo, hi |-> n.mid % 16]

U32Of(k) == [lo |-> k, hi |-> 0]
U32Max == [lo |-> Limb - 1, hi |-> 15]
U32IsZero(c) == c.lo = 0 /\ c.hi = 0

\* *cnt -= 1, for cnt # 0
U32Dec(c) == IF c.lo > 0 THEN [c EXCEPT !.lo = @ - 1]
             ELSE [lo |-> Limb - 1, hi |-> c.hi - 1]

\* len as usize <= n, for a length n of a modelled buffer
U32LeNat(c, n) == c.hi = 0 /\ c.lo <= n

----------------------------------------------------------------------------
(* Slices and parsers *)

Slice(off, len) == [off |-> off, len |-> len]
SliceFrom(s, n) == [off |-> s.off + n, len |-> s.len - n]     \* &s[n..]
SliceTo(s, n) == [off |-> s.off, len |-> n]                    \* &s[..n]
Bytes(buf, s) == SubSeq(buf, s.off + 1, s.off + s.len)

Parser(bytes, pos) == [bytes |-> bytes, pos |-> pos]
NoParser == [none |-> TRUE]

NoVal == [none |-> TRUE]
NoErr == [none |-> TRUE]

Ok(v, p) == [ok |-> TRUE, val |-> v, p |-> p, err |-> NoErr]
Fail(p, e) == [ok |-> FALSE, val |-> NoVal, p |-> p, err |-> e]

\* Parser::error
error(p, kind, arg) == [at |-> p.pos, kind |-> kind, arg |-> arg]

\* Parser::is_empty
is_empty(p) == p.bytes.len = 0

----------------------------------------------------------------------------
(* Primitive decoders *)

\* The `?` operator: a failed result is returned as it is, a successful one
\* is handed on.
Try(r, K(_)) == IF r.ok THEN K(r) ELSE r

\* impl Parse for u8
ParseU8(buf, p) ==
    IF p.bytes.len > 0
    THEN Ok(buf[p.bytes.off + 1],
            Parser(SliceFrom(p.bytes, 1), p.pos + 1))
    ELSE Fail(p, error(p, "UnexpectedEof", NoVal))

\* leb128::read::unsigned on a reader r (a slice, advanced as it is read):
\* [ok, n, rest].  A read past the end is an io error; a group at shift 63
\* other than 0x00 and 0x01 is an overflow.
RECURSIVE ReadUnsignedLoop(_, _, _, _)
ReadUnsignedLoop(buf, r, result, shift) ==
    IF r.len = 0 THEN [ok |-> FALSE, n |-> result, rest |-> r]
    ELSE IF shift = 63 /\ buf[r.off + 1] # 0 /\ buf[r.off + 1] # 1
    THEN [ok |-> FALSE, n |-> result, rest |-> SliceFrom(r, 1)]
    ELSE IF buf[r.off + 1] \div CONTINUATION_BIT = 0
    THEN [ok |-> TRUE, rest |-> SliceFrom(r, 1),
          n |-> OrShl(result, buf[r.off + 1] % CONTINUATION_BIT, shift)]
    ELSE ReadUnsignedLoop(buf, SliceFrom(r, 1),
             OrShl(result, buf[r.off + 1] % CONTINUATION_BIT, shift), shift + 7)

ReadUnsigned(buf, r) == ReadUnsignedLoop(buf, r, U64Zero, 0)

\* the match of u32::parse on what leb128 returned
MatchU32(p, rd) ==
    IF rd.ok /\ FitsU32(rd.n)
    THEN Ok(AsU32(rd.n), Parser(rd.rest, p.pos + (p.bytes.len - rd.rest.len)))
    ELSE IF rd.ok
    THEN Fail(p, error(p, "UlebTooBig", rd.n))
    ELSE Fail(p, error(p, "UlebInvalid", NoVal))

\* impl Parse for u32
ParseU32(buf, p) == MatchU32(p, ReadUnsigned(buf, p.bytes))

\* the match of <&[u8]>::parse on parser.bytes.get(..len), l the parsed len
GetBytes(l) ==
    IF U32LeNat(l.val, l.p.bytes.len)
    THEN Ok(SliceTo(l.p.bytes, l.val.lo),
            Parser(SliceFrom(l.p.bytes, l.val.lo), l.p.pos + l.val.lo))
    ELSE Fail(l.p, error(l.p, "Expected", l.val))

\* impl Parse for &[u8]: the value is the slice carved out
ParseBytes(buf, p) == Try(ParseU32(buf, p), GetBytes)

\* str::from_utf8(..).is_ok() on a sequence of bytes
InRange(b, lo, hi) == lo <= b /\ b <= hi
Cont(s, i) == i <= Len(s) /\ InRange(s[i], 128, 191)
RECURSIVE Utf8From(_, _)
Utf8From(s, i) ==
    IF i > Len(s) THEN TRUE
    ELSE IF s[i] < 128 THEN Utf8From(s, i + 1)
    ELSE IF InRange(s[i], 194, 223)
    THEN Cont(s, i + 1) /\ Utf8From(s, i + 2)
    ELSE IF InRange(s[i], 224, 239)
    THEN /\ Cont(s, i + 1) /\ Cont(s, i + 2)
         /\ (s[i] = 224 => s[i + 1] >= 160)
         /\ (s[i] = 237 => s[i + 1] <= 159)
         /\ Utf8From(s, i + 3)
    ELSE IF InRange(s[i], 240, 244)
    THEN /\ Cont(s, i + 1) /\ Cont(s, i + 2) /\ Cont(s, i + 3)
         /\ (s[i] = 240 => s[i + 1] >= 144)
         /\ (s[i] = 244 => s[i + 1] <= 143)
         /\ Utf8From(s, i + 4)
    ELSE FALSE
from_utf8_ok(s) == Utf8From(s, 1)

\* the match of <&str>::parse on str::from_utf8, b the parsed bytes and pos
\* the position saved on entry
MatchStr(buf, pos, b) ==
    IF from_utf8_ok(Bytes(buf, b.val)) THEN b
    ELSE Fail([b.p EXCEPT !.pos = pos],
              error([b.p EXCEPT !.pos = pos], "InvalidUtf8", NoVal))

\* impl Parse for &str: the value is the slice holding the string
ParseStr(buf, p) ==
    Try(ParseBytes(buf, p), LAMBDA b: MatchStr(buf, p.pos, b))

----------------------------------------------------------------------------
(* Records *)

\* ValType::parse with the codes in the order the enum declares its
\* variants, String last
MatchValType_EnumOrder(b) ==
    CASE b.val = 0 -> Ok("S8", b.p)
      [] b.val = 1 -> Ok("S16", b.p)
      [] b.val = 2 -> Ok("S32", b.p)
      [] b.val = 3 -> Ok("S64", b.p)
      [] b.val = 4 -> Ok("U8", b.p)
      [] b.val = 5 -> Ok("U16", b.p)
      [] b.val = 6 -> Ok("U32", b.p)
      [] b.val = 7 -> Ok("U64", b.p)
      [] b.val = 8 -> Ok("F32", b.p)
      [] b.val = 9 -> Ok("F64", b.p)
      [] b.val = 10 -> Ok("String", b.p)
      [] OTHER -> Fail(b.p, error(b.p, "InvalidValType", b.val))

\* the match of ValType::parse on the byte parsed
MatchValType(b) ==
    CASE b.val = 0 -> Ok("String", b.p)
      [] b.val = 1 -> Ok("S8", b.p)
      [] b.val = 2 -> Ok("S16", b.p)
      [] b.val = 3 -> Ok("S32", b.p)
      [] b.val = 4 -> Ok("S64", b.p)
      [] b.val = 5 -> Ok("U8", b.p)
      [] b.val = 6 -> Ok("U16", b.p)
      [] b.val = 7 -> Ok("U32", b.p)
      [] b.val = 8 -> Ok("U64", b.p)
      [] b.val = 9 -> Ok("F32", b.p)
      [] b.val = 10 -> Ok("F64", b.p)
      [] OTHER -> Fail(b.p, error(b.p, "InvalidValType", b.val))

\* impl Parse for ValType
ParseValType(buf, p) == Try(ParseU8(buf, p), MatchValType)

\* (0..cnt).map(|_| parser.parse()).collect::<Result<Vec<ValType>>>()
RECURSIVE CollectValTypes(_, _, _, _)
CollectValTypes(buf, p, cnt, acc) ==
    IF U32IsZero(cnt) THEN Ok(acc, p)
    ELSE Try(ParseValType(buf, p),
             LAMBDA v: CollectValTypes(buf, v.p, U32Dec(cnt), Append(acc, v.val)))

\* the closure `types` of Type::parse
types(buf, p) ==
    Try(ParseU32(buf, p), LAMBDA cnt: CollectValTypes(buf, cnt.p, cnt.val, <<>>))

\* impl Parse for Type
ParseType(buf, p) ==
    Try(types(buf, p), LAMBDA params:
    Try(types(buf, params.p), LAMBDA results:
        Ok([params |-> params.val, results |-> results.val], results.p)))

\* impl Parse for Import
ParseImport(buf, p) ==
    Try(ParseStr(buf, p), LAMBDA module:
    Try(ParseStr(buf, module.p), LAMBDA name:
    Try(ParseU32(buf, name.p), LAMBDA ty:
        Ok([module |-> module.val, name |-> name.val, ty |-> ty.val], ty.p))))

\* impl Parse for Export
ParseExport(buf, p) ==
    Try(ParseU32(buf, p), LAMBDA f:
    Try(ParseStr(buf, f.p), LAMBDA name:
        Ok([func |-> f.val, name |-> name.val], name.p)))

\* A result of the sub-parser carved by the caller, as the caller returns
\* it: the caller's own parser is p.
Sub(p, r) == [r EXCEPT !.p = p]

\* a sub-parser that starts at the bytes b and runs on to the end of the
\* parser they were taken from
Carve_Unscoped(b) ==
    Parser(Slice(b.val.off, b.val.len + b.p.bytes.len), b.p.pos - b.val.len)

\* the sub-parser of Section::parse and of Func::parse over the bytes b
Carve(b) == Parser(b.val, b.p.pos - b.val.len)

----------------------------------------------------------------------------
(* Instructions *)

ArgGet(i) == [op |-> "ArgGet", arg |-> i]
CallCore(i) == [op |-> "CallCore", arg |-> i]
End == [op |-> "End", arg |-> NoVal]

\* instructions! { .. } of the parser: the opcode of each variant
BinaryOf(name) == CASE name = "ArgGet" -> 0
                    [] name = "CallCore" -> 1
                    [] name = "End" -> 2

\* the per-variant function $name(_parser) the macro generates
ParseOperands(buf, p, name) ==
    IF name = "End" THEN Ok(End, p)
    ELSE Try(ParseU32(buf, p), LAMBDA a: Ok([op |-> name, arg |-> a.val], a.p))

\* the match of Instruction::parse on the opcode parsed, pos the position
\* saved on entry
MatchInstruction(buf, pos, b) ==
    IF b.val = BinaryOf("ArgGet") THEN ParseOperands(buf, b.p, "ArgGet")
    ELSE IF b.val = BinaryOf("CallCore") THEN ParseOperands(buf, b.p, "CallCore")
    ELSE IF b.val = BinaryOf("End") THEN ParseOperands(buf, b.p, "End")
    ELSE Fail([b.p EXCEPT !.pos = pos],
              error([b.p EXCEPT !.pos = pos], "InvalidInstruction", b.val))

\* impl Parse for Instruction
ParseInstruction(buf, p) ==
    Try(ParseU8(buf, p), LAMBDA b: MatchInstruction(buf, p.pos, b))

\* Instructions::next without the is_empty test after End
MatchNext_NoTrailingCheck(r) ==
    IF r.ok /\ r.val = End
    THEN [some |-> FALSE, res |-> Ok(NoVal, r.p)]
    ELSE [some |-> TRUE, res |-> r]

\* Instructions::next yielding End like any other instruction
MatchNext_YieldsEnd(r) ==
    IF r.ok /\ r.val = End /\ ~is_empty(r.p)
    THEN [some |-> TRUE, res |-> Fail(r.p, error(r.p, "TrailingBytes", NoVal))]
    ELSE IF ~r.ok /\ r.err.kind = "UnexpectedEof"
    THEN [some |-> FALSE, res |-> Ok(NoVal, r.p)]
    ELSE [some |-> TRUE, res |-> r]

\* Instructions::next taking the end of the bytes for the end of the
\* iteration
MatchNext_EofEnds(r) ==
    IF r.ok /\ r.val = End
    THEN IF is_empty(r.p)
         THEN [some |-> FALSE, res |-> Ok(NoVal, r.p)]
         ELSE [some |-> TRUE, res |-> Fail(r.p, error(r.p, "TrailingBytes", NoVal))]
    ELSE IF ~r.ok /\ r.err.kind = "UnexpectedEof" /\ is_empty(r.p)
    THEN [some |-> FALSE, res |-> Ok(NoVal, r.p)]
    ELSE [some |-> TRUE, res |-> r]

\* the match of Instructions::next on what self.parser.parse() returned
MatchNext(r) ==
    IF r.ok /\ r.val = End
    THEN IF is_empty(r.p)
         THEN [some |-> FALSE, res |-> Ok(NoVal, r.p)]
         ELSE [some |-> TRUE, res |-> Fail(r.p, error(r.p, "TrailingBytes", NoVal))]
    ELSE [some |-> TRUE, res |-> r]

\* Instructions::next: [some, res], res.p the iterator's parser afterwards
InstructionsNext(buf, p) == MatchNext(ParseInstruction(buf, p))

\* the enumeration of an Instructions iterator over p to its end: Ok, or
\* the first error
RECURSIVE Drained(_, _)
Drained(buf, p) ==
    IF ~InstructionsNext(buf, p).some THEN Ok(NoVal, InstructionsNext(buf, p).res.p)
    ELSE Try(InstructionsNext(buf, p).res, LAMBDA i: Drained(buf, i.p))

\* Func::parse with the instructions read at once: the first error of
\* their enumeration is the error of the Func
ParseFunc_Eager(buf, p) ==
    Try(ParseBytes(buf, p), LAMBDA b:
        Sub(b.p, Try(ParseU32(buf, Carve(b)), LAMBDA ty:
                     Try(Drained(buf, ty.p), LAMBDA d:
                         Ok([ty |-> ty.val, parser |-> ty.p], ty.p)))))

\* impl Parse for Func: the value holds the sub-parser over the body
ParseFunc(buf, p) ==
    Try(ParseBytes(buf, p), LAMBDA b:
        Sub(b.p, Try(ParseU32(buf, Carve(b)), LAMBDA ty:
                     Ok([ty |-> ty.val, parser |-> ty.p], ty.p))))

----------------------------------------------------------------------------
(* Sections *)

SectionKind(id) == CASE id = 0 -> "Type"
                     [] id = 1 -> "Import"
                     [] id = 2 -> "Export"
                     [] id = 3 -> "Func"

\* the match of Section::parse on the id, b the parsed payload and id_pos
\* the position saved on entry
MatchSection(buf, id_pos, id, b) ==
    IF id \in 0..3
    THEN Sub(b.p, Try(ParseU32(buf, Carve(b)), LAMBDA cnt:
                      Ok([kind |-> SectionKind(id), parser |-> cnt.p,
                          cnt |-> cnt.val], cnt.p)))
    ELSE Fail(b.p, error([Carve(b) EXCEPT !.pos = id_pos], "InvalidSection", id))

\* impl Parse for Section: res.p is the caller's parser, the value holds the
\* sub-parser over the payload and the declared count
ParseSection(buf, p) ==
    Try(ParseU8(buf, p), LAMBDA id:
    Try(ParseBytes(buf, id.p), LAMBDA b: MatchSection(buf, p.pos, id.val, b)))

\* T::parse for the item type of a section of the given kind
ParseItem(buf, p, kind) ==
    CASE kind = "Type" -> ParseType(buf, p)
      [] kind = "Import" -> ParseImport(buf, p)
      [] kind = "Export" -> ParseExport(buf, p)
      [] kind = "Func" -> ParseFunc(buf, p)

\* parse_next_in_section going by the bytes left instead of the count:
\* items are decoded until the sub-parser is empty
parse_next_in_section_UntilEmpty(buf, p, cnt, kind) ==
    IF p.bytes.len = 0
    THEN [some |-> FALSE, cnt |-> cnt, res |-> Ok(NoVal, p)]
    ELSE [some |-> TRUE, cnt |-> IF U32IsZero(cnt) THEN cnt ELSE U32Dec(cnt),
          res |-> ParseItem(buf, p, kind)]

\* parse_next_in_section without `*cnt -= 1`
parse_next_in_section_NoDecrement(buf, p, cnt, kind) ==
    IF U32IsZero(cnt)
    THEN IF p.bytes.len # 0
         THEN [some |-> TRUE, cnt |-> cnt,
               res |-> Fail(p, error(p, "TrailingBytes", NoVal))]
         ELSE [some |-> FALSE, cnt |-> cnt, res |-> Ok(NoVal, p)]
    ELSE [some |-> TRUE, cnt |-> cnt, res |-> ParseItem(buf, p, kind)]

\* Parser::parse_next_in_section: [some, res, cnt]
parse_next_in_section(buf, p, cnt, kind) ==
    IF U32IsZero(cnt)
    THEN IF p.bytes.len # 0
         THEN [some |-> TRUE, cnt |-> cnt,
               res |-> Fail(p, error(p, "TrailingBytes", NoVal))]
         ELSE [some |-> FALSE, cnt |-> cnt, res |-> Ok(NoVal, p)]
    ELSE [some |-> TRUE, cnt |-> U32Dec(cnt), res |-> ParseItem(buf, p, kind)]

\* wit_schema_version::VERSION, as UTF-8 bytes
VERSION == <<48, 46, 49>>

\* Parser::new without `parser.pos = 0` before the error is made
MatchVersion_PosKept(buf, version) ==
    IF ~version.ok THEN Sub(NoParser, version)
    ELSE IF Bytes(buf, version.val) # VERSION
    THEN Fail(NoParser, error(version.p, "InvalidVersion", Bytes(buf, version.val)))
    ELSE Ok(NoVal, version.p)

\* the comparison of Parser::new on what <&str>::parse returned: res.p is
\* the parser returned (on failure none is)
MatchVersion(buf, version) ==
    IF ~version.ok THEN Sub(NoParser, version)
    ELSE IF Bytes(buf, version.val) # VERSION
    THEN Fail(NoParser, error([version.p EXCEPT !.pos = 0], "InvalidVersion",
                              Bytes(buf, version.val)))
    ELSE Ok(NoVal, version.p)

\* Parser::new
ParserNew(buf) ==
    MatchVersion(buf, ParseStr(buf, Parser(Slice(0, Len(buf)), 0)))

----------------------------------------------------------------------------
(* The text-side encoder *)

\* val >>= 7
Shr7(val) == [lo |-> (val.lo \div CONTINUATION_BIT) + val.hi * Pow2(21), hi |-> 0]

\* leb128::write::unsigned of a u32 widened to u64
RECURSIVE WriteUnsigned(_)
WriteUnsigned(val) ==
    IF U32IsZero(Shr7(val)) THEN <<val.lo % CONTINUATION_BIT>>
    ELSE <<(val.lo % CONTINUATION_BIT) + CONTINUATION_BIT>> \o WriteUnsigned(Shr7(val))

\* <wast::Index as Encode>::encode, for a resolved (numeric) index
EncodeIndex(i) == WriteUnsigned(i)

\* the table with the opcodes of the first two variants exchanged
TextBinaryOf_Swapped(name) == CASE name = "ArgGet" -> <<1>>
                                [] name = "CallCore" -> <<0>>
                                [] name = "End" -> <<2>>

\* instructions! { .. } of the text crate: the opcode bytes of each variant
TextBinaryOf(name) == CASE name = "ArgGet" -> <<0>>
                        [] name = "CallCore" -> <<1>>
                        [] name = "End" -> <<2>>

\* impl Encode for Instruction: the bytes appended to v
EncodeInstruction(i) ==
    TextBinaryOf(i.op) \o (IF i.op = "End" THEN <<>> ELSE EncodeIndex(i.arg))

----------------------------------------------------------------------------
(* Bounds and inputs *)

MaxLen == 3

SeqsUpTo(S, n) == UNION {[1..k -> S] : k \in 0..n}

\* bytes that are, between them, every kind of token: small varints and
\* counts, the opcodes, the section ids, a code that is no ValType, section
\* id or opcode (11), and the continuation bit alone (128), which is also
\* no UTF-8
DecodeAlphabet == {0, 1, 2, 3, 11, 128}

Rep(b, n) == [i \in 1..n |-> b]

\* varints at the edges of u32 and of the 64-bit accumulator
VarintEdges ==
    { <<255, 255, 255, 255, 15>>,            \* 2^32 - 1
      <<128, 128, 128, 128, 16>>,            \* 2^32
      <<255, 255, 255, 255, 15, 2>>,         \* 2^32 - 1, then a byte
      <<255, 255, 255, 255, 31>>,            \* 2^33 - 1
      <<255, 255, 255, 255, 143, 0>>,        \* 2^32 - 1, padded
      Rep(128, 4) \o <<1>>,                  \* 2^28
      Rep(128, 5) \o <<1>>,                  \* 2^35
      Rep(128, 8) \o <<1>>,                  \* 2^56
      Rep(128, 9) \o <<0>>,                  \* 0 in ten bytes
      Rep(128, 9) \o <<1>>,                  \* 2^63
      Rep(255, 9) \o <<1>>,                  \* 2^64 - 1
      Rep(128, 9) \o <<2>>,                  \* overflows the accumulator
      Rep(128, 10) \o <<0>>,                 \* eleven bytes
      <<127>>, <<255, 127>>, <<255, 255, 3>> }

\* the scenarios of the specification, and records too long for MaxLen
DecodeScenarios ==
    { <<9>>, <<9, 0>>, <<9, 1, 0, 0>>,       \* section id 9
      <<0, 4, 1, 0, 1, 7>>,                  \* a Type section: () -> u32
      <<0, 1, 7>>,                           \* that Type
      <<4, 0, 0, 3, 2>>,                     \* a Func: ty 0, arg.get 3, end
      <<1, 48, 1, 128, 0>>,                  \* an Import, its name no UTF-8
      <<1, 48, 2, 49>>,                      \* an Import, its name cut short
      <<1, 48, 1, 49, 0>>,                   \* an Import
      <<0, 2, 194, 128>>,                    \* an Export, its name U+0080
      <<1, 2, 11>>,                          \* a Type, its result no ValType
      <<1, 255, 255, 255, 255, 15>>,         \* call-core 2^32-1
      <<0, 128, 128, 0>>,                    \* arg.get 0, padded
      <<0, 3, 2>> }                          \* arg.get 3, end

DecodeInputs == SeqsUpTo(DecodeAlphabet, MaxLen) \cup VarintEdges \cup DecodeScenarios

None == [none |-> TRUE]
NoCall == [op |-> "none", pre |-> NoParser, res |-> NoVal]

----------------------------------------------------------------------------
(* SpecDecode: the Parse implementations applied, in any order, to one      *)
(* parser over one buffer.                                                  *)

InitDecode ==
    /\ input \in DecodeInputs
    /\ parser = Parser(Slice(0, Len(input)), 0)
    /\ last = NoCall
    /\ sec = None /\ func = None /\ its = <<>>
    /\ instr = None /\ vec = <<>> /\ hist = <<>>

Decode(op, r) ==
    /\ parser' = r.p
    /\ last' = [op |-> op, pre |-> parser, res |-> r]
    /\ UNCHANGED <<input, sec, func, its, instr, vec, hist>>

DoU8 == Decode("u8", ParseU8(input, parser))
DoU32 == Decode("u32", ParseU32(input, parser))
DoBytes == Decode("bytes", ParseBytes(input, parser))
DoStr == Decode("str", ParseStr(input, parser))
DoValType == Decode("ValType", ParseValType(input, parser))
DoType == Decode("Type", ParseType(input, parser))
DoImport == Decode("Import", ParseImport(input, parser))
DoExport == Decode("Export", ParseExport(input, parser))
DoFunc == Decode("Func", ParseFunc(input, parser))
DoSection == Decode("Section", ParseSection(input, parser))
DoInstruction == Decode("Instruction", ParseInstruction(input, parser))

NextDecode ==
    \/ DoU8 \/ DoU32 \/ DoBytes \/ DoStr \/ DoValType \/ DoType
    \/ DoImport \/ DoExport \/ DoFunc \/ DoSection \/ DoInstruction

SpecDecode == InitDecode /\ [][NextDecode]_vars

----------------------------------------------------------------------------
(* Claims about the decoders, under SpecDecode *)

Called(op) == last.op = op
Before == last.pre
After == last.res.p
Failed == ~last.res.ok
AllOps == {"u8", "u32", "bytes", "str", "ValType", "Type", "Import", "Export",
           "Func", "Section", "Instruction"}

\* the bytes the call was made on, and the offset in the buffer of the first
Remaining == Bytes(input, Before.bytes)
OffsetBefore == Before.bytes.off

\* C1: a decode operation that fails leaves the parser it was called on as
\* it was before the call: the same remaining bytes and the same position.
C1_FailureRestoresCursor ==
    \A op \in AllOps : (Called(op) /\ Failed) => After = Before

----------------------------------------------------------------------------
(* LEB128, as the wire grammar defines it: the groups up to the first byte
   without the continuation bit, at most ten of them, least significant
   first, the tenth holding the one bit left of a 64-bit value. *)

MaxWidth == (64 + 6) \div 7

LebLen(s) ==
    IF \E k \in 1..Len(s) : s[k] < CONTINUATION_BIT
    THEN CHOOSE k \in 1..Len(s) :
            s[k] < CONTINUATION_BIT /\ \A j \in 1..(k - 1) : s[j] >= CONTINUATION_BIT
    ELSE 0

Group(s, i) == IF i <= LebLen(s) THEN s[i] % CONTINUATION_BIT ELSE 0

IsLeb64(s) == /\ LebLen(s) \in 1..MaxWidth
              /\ (LebLen(s) = MaxWidth => s[MaxWidth] \in {0, 1})

LebValue(s) ==
    [lo |-> Group(s, 1) + 128 * Group(s, 2) + 16384 * Group(s, 3) + 2097152 * Group(s, 4),
     mid |-> Group(s, 5) + 128 * Group(s, 6) + 16384 * Group(s, 7) + 2097152 * Group(s, 8),
     hi |-> Group(s, 9) + 128 * Group(s, 10)]

\* v <= 2^32 - 1
AtMostU32Max(v) == v.hi = 0 /\ (v.mid < 15 \/ (v.mid = 15 /\ v.lo <= Limb - 1))

\* C9: varint decode accepts every LEB128 encoding of a value in
\* 0..2^32-1, returns that value and advances the parser by exactly the
\* bytes of the encoding; an encoding of a larger value that fits 64 bits
\* fails with UlebTooBig and leaves the parser's bytes and position as
\* they were.
C9_VarintRange ==
    (Called("u32") /\ IsLeb64(Remaining)) =>
        IF AtMostU32Max(LebValue(Remaining))
        THEN /\ last.res.ok
             /\ last.res.val.lo = LebValue(Remaining).lo
             /\ last.res.val.hi = LebValue(Remaining).mid
             /\ After.bytes = SliceFrom(Before.bytes, LebLen(Remaining))
             /\ After.pos = Before.pos + LebLen(Remaining)
        ELSE /\ Failed
             /\ last.res.err.kind = "UlebTooBig"
             /\ last.res.err.arg = LebValue(Remaining)
             /\ After = Before

\* 2^32 - 1 in five bytes has been decoded, and 2^32 refused in the state
\* before
C9_Witness ==
    /\ Called("u32") /\ last.res.ok
    /\ Remaining = <<255, 255, 255, 255, 15>>
    /\ last.res.val = U32Max
    /\ After.bytes.len = 0 /\ After.pos = 5

\* C6: a length-prefixed byte range (and so a Func item) whose declared
\* length exceeds the bytes that remain fails with Expected(len), at the
\* offset of the first byte of the length prefix.
C6_TruncatedAtPrefix ==
    \A op \in {"bytes", "Func"} :
        (/\ Called(op)
         /\ ParseU32(input, Before).ok
         /\ ~U32LeNat(ParseU32(input, Before).val, ParseU32(input, Before).p.bytes.len))
        => /\ Failed
           /\ last.res.err.kind = "Expected"
           /\ last.res.err.arg = ParseU32(input, Before).val
           /\ last.res.err.at = OffsetBefore

\* C7: Section decode at a byte that is no section id fails with
\* InvalidSection(id) at the offset of the id byte, whatever follows the
\* byte, and leaves the caller's parser positioned at that offset.
C7_InvalidSectionAtId ==
    (Called("Section") /\ Remaining # <<>> /\ Remaining[1] \notin 0..3)
    => /\ Failed
       /\ last.res.err.kind = "InvalidSection"
       /\ last.res.err.arg = Remaining[1]
       /\ last.res.err.at = OffsetBefore
       /\ After.pos = OffsetBefore

\* C8: ValType decode of a byte b above 10 fails with InvalidValType(b), the
\* error and the parser afterwards at the offset of the byte b itself.
C8_InvalidValTypeAtByte ==
    (Called("ValType") /\ Remaining # <<>> /\ Remaining[1] > 10)
    => /\ Failed
       /\ last.res.err.kind = "InvalidValType"
       /\ last.res.err.arg = Remaining[1]
       /\ last.res.err.at = OffsetBefore
       /\ After.pos = OffsetBefore

----------------------------------------------------------------------------
(* SpecInstr: the encoder of the text crate and the decoder of the parser   *)
(* crate, one feeding the other.  Either an Instruction is encoded into a   *)
(* fresh vector and the vector decoded, or a buffer is decoded and the      *)
(* Instruction it holds encoded.                                            *)

MaxIndex == 130

\* indexes across the widths of a varint
SampleIndexes ==
    {U32Of(k) : k \in 0..MaxIndex} \cup
    {U32Of(16383), U32Of(16384), U32Of(2097151), U32Of(2097152),
     U32Of(Limb - 1), [lo |-> 0, hi |-> 1], [lo |-> 5, hi |-> 8], U32Max}

SampleInstructions ==
    {ArgGet(i) : i \in SampleIndexes} \cup {CallCore(i) : i \in SampleIndexes} \cup {End}

Whole(buf) == Parser(Slice(0, Len(buf)), 0)

InitInstr ==
    /\ \/ instr \in SampleInstructions /\ input = <<>>
       \/ instr = None /\ input \in DecodeInputs \ {<<>>}
    /\ vec = <<>>
    /\ last = NoCall
    /\ parser = NoParser /\ sec = None /\ func = None /\ its = <<>> /\ hist = <<>>

\* instr.encode(&mut v), v a new Vec
EncodeInstr ==
    /\ instr # None /\ vec = <<>>
    /\ vec' = vec \o EncodeInstruction(instr)
    /\ last' = [op |-> "encode", pre |-> NoParser, res |-> NoVal]
    /\ UNCHANGED <<input, parser, sec, func, its, instr, hist>>

\* Instruction::parse on the bytes the encoder wrote
DecodeEncoded ==
    /\ input = <<>> /\ vec # <<>>
    /\ last' = [op |-> "decode", pre |-> Whole(vec),
                res |-> ParseInstruction(vec, Whole(vec))]
    /\ UNCHANGED <<input, parser, sec, func, its, instr, vec, hist>>

\* Instruction::parse on the buffer; what it returns is the encoder's to encode
DecodeInput ==
    /\ input # <<>> /\ instr = None
    /\ last' = [op |-> "parse", pre |-> Whole(input),
                res |-> ParseInstruction(input, Whole(input))]
    /\ instr' = IF ParseInstruction(input, Whole(input)).ok
                THEN ParseInstruction(input, Whole(input)).val ELSE None
    /\ UNCHANGED <<input, parser, sec, func, its, vec, hist>>

NextInstr == EncodeInstr \/ DecodeEncoded \/ DecodeInput

SpecInstr == InitInstr /\ [][NextInstr]_vars

\* the decoder accepts buf as exactly one instruction
AcceptsOne(buf) ==
    /\ ParseInstruction(buf, Whole(buf)).ok
    /\ ParseInstruction(buf, Whole(buf)).p.bytes.len = 0

\* the operand of the one instruction in buf is the shortest encoding of
\* its value: it is one byte, or its last group is not zero
MinimalOperand(buf) ==
    \/ buf[1] = 2
    \/ LebLen(Tail(buf)) = 1
    \/ Tail(buf)[LebLen(Tail(buf))] # 0

OpcodesAgree ==
    /\ TextBinaryOf("ArgGet") = <<0>> /\ BinaryOf("ArgGet") = 0
    /\ TextBinaryOf("CallCore") = <<1>> /\ BinaryOf("CallCore") = 1
    /\ TextBinaryOf("End") = <<2>> /\ BinaryOf("End") = 2

DecodeOfEncode ==
    Called("decode") =>
        /\ last.res.ok
        /\ last.res.val = instr
        /\ last.res.p.bytes.len = 0
        /\ last.res.p.pos = Len(vec)

\* C2, as the specification states it: decode(encode(v)) = v with every
\* byte consumed, encode(decode(bytes)) = bytes for every byte sequence
\* the decoder accepts as exactly one instruction, and one opcode per
\* variant in both tables.
C2_RoundTrip_AsStated ==
    /\ OpcodesAgree
    /\ DecodeOfEncode
    /\ (Called("encode") /\ input # <<>> /\ AcceptsOne(input)) => vec = input

\* C2, amended: encode(decode(bytes)) = bytes for the accepted sequences
\* whose varint operand is minimally encoded; the rest as stated.
C2_RoundTrip ==
    /\ OpcodesAgree
    /\ DecodeOfEncode
    /\ (Called("encode") /\ input # <<>> /\ AcceptsOne(input) /\ MinimalOperand(input))
       => vec = input

\* call-core 2^32-1 has been decoded from its six bytes and encoded again
C2_Witness ==
    /\ Called("encode")
    /\ input = <<1, 255, 255, 255, 255, 15>>
    /\ instr = CallCore(U32Max)
    /\ vec = input

----------------------------------------------------------------------------
(* Spec: a caller of the public interface.  It constructs the Parser, asks  *)
(* it for sections, pulls items from the iterator of the section it holds,  *)
(* creates Instructions iterators from the Func it holds and pulls          *)
(* instructions from them, in any order.                                    *)

MaxPayload == 3
MaxBody == 3
MaxAfterError == 1

Iters == {1, 2}

\* a length-prefixed byte range, for a length below 128
Prefixed(s) == <<Len(s)>> \o s

Header == Prefixed(VERSION)

\* buffers Parser::new refuses
BadHeaders ==
    { <<>>, <<128>>, <<3, 48, 46>>, <<3, 48, 46, 50>>, <<2, 48, 46, 49>>,
      <<1, 128, 0>>, <<0>>, <<0, 0, 0>> }

PayloadAlphabet == {0, 1, 2, 128}
BodyAlphabet == {0, 2, 3, 128}
SectionIds == {0, 1, 2, 3, 9}

\* what may follow the first section: nothing, a byte that is no section
\* id, an empty Type section
Tails == { <<>>, <<9, 0>>, <<0, 1, 0>> }
FuncTails == { <<>>, <<0, 1, 0>> }

\* payloads longer than MaxPayload: the scenarios of the specification
PayloadScenarios ==
    { <<1, 0, 1, 7>>,                        \* one Type: () -> u32
      <<1, 0, 1, 7, 0>>,                     \* and a stray byte
      <<1, 6, 0, 1, 2, 3, 4, 5, 5, 6, 7, 8, 9, 10>>,   \* every ValType
      <<2, 0, 0, 1, 3, 0>>,                  \* two Types
      <<1, 0, 0, 0, 0>>,                     \* one Type declared, two there
      <<1, 1, 48, 1, 49, 0>>,                \* one Import
      <<1, 1, 48, 1, 128, 0>>,               \* one Import, its name no UTF-8
      <<1, 1, 11, 0>>,                       \* one Type, its parameter no ValType
      <<1, 0, 1, 11>>,                       \* one Type, its result no ValType
      <<1, 0, 1, 48>>,                       \* one Export
      <<1, 4, 0, 1, 1, 2>>,                  \* one Func: call-core 1, end
      <<1, 5, 0, 0, 1, 2, 0>>,               \* one Func: arg.get 1, end, a byte
      <<1, 4, 0, 0, 3, 2>>,                  \* one Func: arg.get 3, end
      <<1, 3, 0, 0, 3>>,                     \* that Func without its end
      <<1, 6, 0, 0, 3, 2>>,                  \* a Func longer than the payload
      <<2, 2, 0, 2, 2, 5, 2>>,               \* two Funcs
      <<255, 255, 255, 255, 15, 0, 0>> }     \* 2^32 - 1 items declared

\* a Func section holding one function with the given body
OneFunc(body) == <<1>> \o Prefixed(body)

Payloads == SeqsUpTo(PayloadAlphabet, MaxPayload) \cup PayloadScenarios

\* Func sections of one function of type 0, with every short body
FuncPayloads == {OneFunc(<<0>> \o b) : b \in SeqsUpTo(BodyAlphabet, MaxBody)}

Section(id, payload) == <<id>> \o Prefixed(payload)

\* the version behind a length of two bytes
PaddedHeader == <<131, 0>> \o VERSION

Inputs ==
    BadHeaders \cup {PaddedHeader, PaddedHeader \o <<9, 0>>} \cup
    {Header \o Section(id, pl) \o t : id \in SectionIds, pl \in Payloads, t \in Tails}
    \cup {Header \o Section(3, pl) \o t : pl \in FuncPayloads, t \in FuncTails}

NoIter == [none |-> TRUE]
NoHist == [none |-> TRUE]

Init ==
    /\ input \in Inputs
    /\ parser = NoParser
    /\ sec = None
    /\ func = None
    /\ its = [i \in Iters |-> NoIter]
    /\ last = NoCall
    /\ hist = NoHist
    /\ instr = None /\ vec = <<>>

\* Parser::new(bytes)
New ==
    /\ last = NoCall
    /\ parser' = ParserNew(input).p
    /\ last' = [op |-> "new", pre |-> NoParser, res |-> ParserNew(input)]
    /\ UNCHANGED <<input, sec, func, its, instr, vec, hist>>

\* the payload of the section at the parser p, from the wire grammar: the
\* bytes after the id and the length prefix, as many as the prefix says
PayloadOf(buf, p) ==
    [lo |-> p.bytes.off + 1 + LebLen(Bytes(buf, SliceFrom(p.bytes, 1))),
     hi |-> p.bytes.off + 1 + LebLen(Bytes(buf, SliceFrom(p.bytes, 1)))
            + LebValue(Bytes(buf, SliceFrom(p.bytes, 1))).lo]

\* parser.section(): the caller keeps the iterator returned and lets go of
\* what it held of the section before
CallSection(r) ==
    /\ parser' = r.p
    /\ last' = [op |-> "section", pre |-> parser, res |-> r]
    /\ IF r.ok
       THEN /\ sec' = r.val
            /\ hist' = [declared |-> r.val.cnt, attempts |-> 0, yielded |-> 0,
                        errors |-> 0, scope |-> PayloadOf(input, parser)]
            /\ func' = None
            /\ its' = [i \in Iters |-> NoIter]
       ELSE UNCHANGED <<sec, hist, func, its>>
    /\ UNCHANGED <<input, instr, vec>>

SectionCall ==
    /\ parser # NoParser
    /\ CallSection(ParseSection(input, parser))

\* Types::next, Imports::next, Exports::next, Funcs::next on the iterator held
CallNext(n) ==
    /\ sec' = [sec EXCEPT !.parser = n.res.p, !.cnt = n.cnt]
    /\ last' = [op |-> "next", pre |-> sec.parser, cnt |-> sec.cnt,
                some |-> n.some, res |-> n.res]
    /\ hist' = [hist EXCEPT
                 !.attempts = IF U32IsZero(sec.cnt) THEN @ ELSE @ + 1,
                 !.yielded = IF n.some /\ n.res.ok THEN @ + 1 ELSE @,
                 !.errors = IF n.some /\ ~n.res.ok THEN @ + 1 ELSE @]
    /\ IF n.some /\ n.res.ok /\ sec.kind = "Func"
       THEN func' = n.res.val /\ its' = [i \in Iters |-> NoIter]
       ELSE UNCHANGED <<func, its>>
    /\ UNCHANGED <<input, parser, instr, vec>>

SectionNext ==
    /\ sec # None
    /\ hist.errors <= MaxAfterError
    /\ CallNext(parse_next_in_section(input, sec.parser, sec.cnt, sec.kind))

\* func.instrs() handing out the parser another iterator of the Func has
\* already advanced, where there is one, instead of a clone of the Func's
FuncInstrs_Resumed(i) ==
    /\ func # None
    /\ its' = [its EXCEPT ![i] =
                 [parser |-> IF \E j \in Iters \ {i} : its[j] # NoIter
                             THEN its[CHOOSE j \in Iters \ {i} : its[j] # NoIter].parser
                             ELSE func.parser,
                  out |-> <<>>, status |-> "running", err |-> NoErr]]
    /\ last' = [op |-> "instrs", pre |-> func.parser, res |-> NoVal]
    /\ UNCHANGED <<input, parser, sec, func, instr, vec, hist>>

\* func.instrs()
FuncInstrs(i) ==
    /\ func # None
    /\ its' = [its EXCEPT ![i] = [parser |-> func.parser, out |-> <<>>,
                                  status |-> "running", err |-> NoErr]]
    /\ last' = [op |-> "instrs", pre |-> func.parser, res |-> NoVal]
    /\ UNCHANGED <<input, parser, sec, func, instr, vec, hist>>

\* Instructions::next on the i-th iterator; out, status and err record what
\* the enumeration gave up to its first end or error
CallInstrNext(i, n) ==
    /\ its' = [its EXCEPT ![i] =
                 IF @.status # "running" THEN [@ EXCEPT !.parser = n.res.p]
                 ELSE IF ~n.some THEN [@ EXCEPT !.parser = n.res.p, !.status = "ended"]
                 ELSE IF ~n.res.ok
                 THEN [@ EXCEPT !.parser = n.res.p, !.status = "failed",
                                !.err = n.res.err]
                 ELSE [@ EXCEPT !.parser = n.res.p, !.out = Append(@, n.res.val)]]
    /\ last' = [op |-> "inext", pre |-> its[i].parser, it |-> i,
                some |-> n.some, res |-> n.res]
    /\ UNCHANGED <<input, parser, sec, func, instr, vec, hist>>

InstrNext(i) ==
    /\ its[i] # NoIter
    /\ CallInstrNext(i, InstructionsNext(input, its[i].parser))

Next ==
    \/ New
    \/ SectionCall
    \/ SectionNext
    \/ \E i \in Iters : FuncInstrs(i)
    \/ \E i \in Iters : InstrNext(i)

Spec == Init /\ [][Next]_vars

----------------------------------------------------------------------------
(* Claims about the section iterators, under Spec *)

U32AddNat(c, k) == IF c.lo + k < Limb THEN [c EXCEPT !.lo = @ + k]
                   ELSE [lo |-> c.lo + k - Limb, hi |-> c.hi + 1]
NatLeU32(k, c) == c.hi > 0 \/ k <= c.lo

\* C3: a section iterator of declared count n never yields more than n
\* items.  While the count is not zero a call takes one off it and decodes
\* one item; at zero a call ends the iteration if the sub-parser is empty
\* and fails with TrailingBytes if it is not.
C3_BoundedItems ==
    /\ sec # None =>
          /\ NatLeU32(hist.yielded, hist.declared)
          /\ hist.yielded <= hist.attempts
          /\ U32AddNat(sec.cnt, hist.attempts) = hist.declared
    /\ Called("next") =>
          IF U32IsZero(last.cnt)
          THEN /\ sec.cnt = last.cnt
               /\ sec.parser = last.pre
               /\ (last.pre.bytes.len = 0 => ~last.some)
               /\ (last.pre.bytes.len # 0 =>
                      last.some /\ Failed /\ last.res.err.kind = "TrailingBytes"
                      /\ last.res.err.at = last.pre.pos)
          ELSE /\ last.some
               /\ U32AddNat(sec.cnt, 1) = last.cnt
               /\ (last.res.ok => After.bytes.off > last.pre.bytes.off)

\* a section of declared count 1 has yielded its one item and then, for
\* the stray byte after it, TrailingBytes
C3_Witness ==
    /\ Called("next") /\ last.some /\ Failed
    /\ last.res.err.kind = "TrailingBytes"
    /\ hist.declared = U32Of(1) /\ hist.yielded = 1 /\ hist.errors = 1

Within(s, scope) == scope.lo <= s.off /\ s.off + s.len <= scope.hi

IteratorCalls == {"next", "instrs", "inext"}

\* C10: after a successful Section decode the caller's parser is at the
\* first byte after the declared payload; the views of the section's
\* iterator, of the Func it yielded and of the Instructions iterators made
\* from that Func stay inside the payload, so that an item running past its
\* end fails; and no call on any of them changes the caller's parser.
C10_Scoped ==
    /\ [](/\ (Called("section") /\ last.res.ok) =>
               /\ parser.bytes.off = PayloadOf(input, Before).hi
               /\ parser.pos = PayloadOf(input, Before).hi
               /\ sec.parser.bytes.off + sec.parser.bytes.len = PayloadOf(input, Before).hi
          /\ sec # None =>
               /\ Within(sec.parser.bytes, hist.scope)
               /\ func # None => Within(func.parser.bytes, hist.scope)
               /\ \A i \in Iters :
                     its[i] # NoIter => Within(its[i].parser.bytes, hist.scope))
    /\ [][last'.op \in IteratorCalls => parser' = parser]_vars

\* a Func whose declared length runs past the end of its section has been
\* refused, with bytes of the next section right behind the payload
C10_Witness ==
    /\ Called("next") /\ Failed /\ last.res.err.kind = "Expected"
    /\ sec.kind = "Func"
    /\ hist.scope.hi < Len(input)
    /\ parser.bytes.off = hist.scope.hi /\ parser.bytes.len > 0

----------------------------------------------------------------------------
(* Claims about the Instructions iterator, under Spec *)

\* the instruction bytes of the Func held: its body after the type index
Body == Bytes(input, func.parser.bytes)

NameOf(opcode) == IF opcode = 0 THEN "ArgGet" ELSE "CallCore"

\* The instruction stream s read by the wire grammar from index i on, acc
\* the instructions before it: where the reading stops and how ("end": at
\* the opcode of an End; "eof": at the end of s, between instructions;
\* "cut": at the end of s, inside an operand; "operand": at an operand that
\* is no varint of 32 bits; "opcode": at a byte that is no opcode).
RECURSIVE Scan(_, _, _)
Scan(s, i, acc) ==
    IF i > Len(s) THEN [how |-> "eof", at |-> i, out |-> acc]
    ELSE IF s[i] = 2 THEN [how |-> "end", at |-> i, out |-> acc]
    ELSE IF s[i] \notin {0, 1} THEN [how |-> "opcode", at |-> i, out |-> acc]
    ELSE LET rest == SubSeq(s, i + 1, Len(s))
         IN IF IsLeb64(rest) /\ AtMostU32Max(LebValue(rest))
            THEN Scan(s, i + 1 + LebLen(rest),
                      Append(acc, [op |-> NameOf(s[i]),
                                   arg |-> [lo |-> LebValue(rest).lo,
                                            hi |-> LebValue(rest).mid]]))
            ELSE IF LebLen(rest) = 0 /\ Len(rest) < MaxWidth
            THEN [how |-> "cut", at |-> i, out |-> acc]
            ELSE [how |-> "operand", at |-> i, out |-> acc]

Enumerated(i) == its[i] # NoIter /\ its[i].status # "running"

EndsAsScanned(i) ==
    /\ its[i].status = "ended" <=>
          (Scan(Body, 1, <<>>).how = "end" /\ Scan(Body, 1, <<>>).at = Len(Body))
    /\ (Scan(Body, 1, <<>>).how = "end" /\ Scan(Body, 1, <<>>).at < Len(Body))
          => its[i].status = "failed" /\ its[i].err.kind = "TrailingBytes"
    /\ its[i].out = Scan(Body, 1, <<>>).out

\* C4, as the specification states it: the enumeration ends without error
\* exactly if the first End decoded is the last byte of the body; an End
\* with bytes after it gives TrailingBytes; a body exhausted before an End
\* is decoded gives UnexpectedEof; the instructions before are yielded in
\* order.
C4_Enumeration_AsStated ==
    \A i \in Iters : Enumerated(i) =>
        /\ EndsAsScanned(i)
        /\ Scan(Body, 1, <<>>).how \in {"eof", "cut"}
              => its[i].status = "failed" /\ its[i].err.kind = "UnexpectedEof"

\* C4, amended: a body exhausted between instructions gives UnexpectedEof,
\* one exhausted inside a varint operand gives UlebInvalid; the rest as
\* stated.
C4_Enumeration ==
    \A i \in Iters : Enumerated(i) =>
        /\ EndsAsScanned(i)
        /\ Scan(Body, 1, <<>>).how = "eof"
              => its[i].status = "failed" /\ its[i].err.kind = "UnexpectedEof"
        /\ Scan(Body, 1, <<>>).how = "cut"
              => its[i].status = "failed" /\ its[i].err.kind = "UlebInvalid"

\* an enumeration has yielded an instruction and then stopped inside the
\* operand of the next
C4_Witness ==
    \E i \in Iters :
        /\ Enumerated(i) /\ its[i].status = "failed"
        /\ its[i].err.kind = "UlebInvalid"
        /\ Len(its[i].out) = 1
        /\ Scan(Body, 1, <<>>).how = "cut"

\* C5, as the specification states it: the instructions a full enumeration
\* gives have the terminal End as their last; the body 0, 0x00, 3, 0x02
\* gives [ArgGet(3), End].
C5_EndIsLast_AsStated ==
    \A i \in Iters : (its[i] # NoIter /\ its[i].status = "ended") =>
        /\ its[i].out # <<>>
        /\ its[i].out[Len(its[i].out)] = End
        /\ Body = <<0, 3, 2>> => its[i].out = <<ArgGet(U32Of(3)), End>>

\* C5, amended: the terminal End is consumed and never yielded; the body
\* 0, 0x00, 3, 0x02 gives [ArgGet(3)] and then the end of the iteration.
C5_EndNotYielded ==
    \A i \in Iters : its[i] # NoIter =>
        /\ \A k \in 1..Len(its[i].out) : its[i].out[k] # End
        /\ (Body = <<0, 3, 2>> /\ its[i].status # "running")
              => its[i].status = "ended" /\ its[i].out = <<ArgGet(U32Of(3))>>

\* the body of scenario B has been enumerated to its end
C5_Witness ==
    \E i \in Iters :
        /\ its[i] # NoIter /\ its[i].status = "ended"
        /\ Body = <<0, 3, 2>>
        /\ func.ty = U32Of(0)
        /\ its[i].out = <<ArgGet(U32Of(3))>>
        /\ its[i].parser.bytes.len = 0

----------------------------------------------------------------------------
(* Claims about Instructions iterators of one Func, under Spec *)

\* an iterator as func.instrs() returns it
Fresh(f) == [parser |-> f.parser, out |-> <<>>, status |-> "running", err |-> NoErr]

\* what one call of next() makes of an iterator nobody else touches
AloneStep(buf, it) ==
    LET n == InstructionsNext(buf, it.parser)
    IN IF it.status # "running" THEN [it EXCEPT !.parser = n.res.p]
       ELSE IF ~n.some THEN [it EXCEPT !.parser = n.res.p, !.status = "ended"]
       ELSE IF ~n.res.ok
       THEN [it EXCEPT !.parser = n.res.p, !.status = "failed", !.err = n.res.err]
       ELSE [it EXCEPT !.parser = n.res.p, !.out = Append(@, n.res.val)]

\* an iterator of f enumerated alone, after k calls of next()
RECURSIVE Alone(_, _, _)
Alone(buf, f, k) == IF k = 0 THEN Fresh(f) ELSE AloneStep(buf, Alone(buf, f, k - 1))

\* the Func item at the parser p, from the wire grammar: where its body
\* starts, where its instructions start and where it ends
FuncItemOf(buf, p) ==
    LET item == Bytes(buf, p.bytes)
        start == p.bytes.off + LebLen(item)
        body == SubSeq(item, LebLen(item) + 1, Len(item))
    IN [instrs |-> start + LebLen(body), hi |-> start + LebValue(item).lo]

InstructionCalls == {"instrs", "inext"}

\* C11: the Instructions iterators of one Func are independent.  The Func
\* holds the bytes of its body after the type index; an iterator starts
\* there; however the calls of next() on the iterators of the Func are
\* interleaved, and whenever they were created, each is where the same
\* number of calls would have brought it alone; creating or advancing one
\* leaves the Func, the section and every other iterator as they were.
C11_Independent ==
    /\ [](/\ (Called("next") /\ last.some /\ last.res.ok /\ sec.kind = "Func") =>
               /\ func.parser.bytes.off = FuncItemOf(input, last.pre).instrs
               /\ func.parser.pos = FuncItemOf(input, last.pre).instrs
               /\ func.parser.bytes.off + func.parser.bytes.len
                     = FuncItemOf(input, last.pre).hi
          /\ \A i \in Iters : its[i] # NoIter =>
               \E k \in 0..(func.parser.bytes.len + 1) : its[i] = Alone(input, func, k)
          /\ Called("instrs") => \E i \in Iters : its[i] = Fresh(func))
    /\ [][last'.op \in InstructionCalls =>
             /\ func' = func /\ sec' = sec /\ parser' = parser
             /\ (last'.op = "inext" =>
                    \A j \in Iters \ {last'.it} : its'[j] = its[j])
             /\ (last'.op = "instrs" =>
                    \E i \in Iters : \A j \in Iters \ {i} : its'[j] = its[j])]_vars

\* one iterator of the Func of scenario B has been enumerated to its end,
\* and another, advanced after it, has yielded the one instruction and has
\* the End still before it
C11_Witness ==
    /\ Called("inext") /\ last.it = 2
    /\ its[1] # NoIter /\ its[1].status = "ended" /\ its[1].out = <<ArgGet(U32Of(3))>>
    /\ its[2] # NoIter /\ its[2].status = "running" /\ its[2].out = <<ArgGet(U32Of(3))>>
    /\ its[2].parser.bytes.len = 1
    /\ func.parser.bytes.len = 3

----------------------------------------------------------------------------
(* Claims about Parser::new, under Spec *)

\* The length-prefixed string at the start of buf, from the wire grammar:
\* whether there is one (a varint of 32 bits, as many bytes as it says,
\* and these UTF-8), its bytes and the offset of the byte after it.
StringAt(buf) ==
    LET n == LebLen(buf)
        len == LebValue(buf).lo
        wf == /\ IsLeb64(buf) /\ AtMostU32Max(LebValue(buf))
              /\ LebValue(buf).mid = 0 /\ n + len <= Len(buf)
    IN [wf |-> wf /\ from_utf8_ok(SubSeq(buf, n + 1, n + len)),
        found |-> IF wf THEN SubSeq(buf, n + 1, n + len) ELSE <<>>,
        end |-> n + len]

\* C12: Parser::new succeeds exactly if the buffer starts with a
\* well-formed length-prefixed string equal to VERSION, and the parser it
\* returns then is at the first byte after the string; a well-formed string
\* that differs gives InvalidVersion(found) at offset 0; a call that fails
\* returns no parser, and without one there is no section, Func or
\* iterator.
C12_VersionGuard ==
    /\ Called("new") =>
          /\ last.res.ok <=> (StringAt(input).wf /\ StringAt(input).found = VERSION)
          /\ last.res.ok =>
                /\ parser.pos = StringAt(input).end
                /\ parser.bytes = Slice(StringAt(input).end,
                                        Len(input) - StringAt(input).end)
          /\ (StringAt(input).wf /\ StringAt(input).found # VERSION) =>
                /\ last.res.err.kind = "InvalidVersion"
                /\ last.res.err.arg = StringAt(input).found
                /\ last.res.err.at = 0
          /\ Failed => parser = NoParser
    /\ parser = NoParser =>
          sec = None /\ func = None /\ \A i \in Iters : its[i] = NoIter
    /\ (sec # None \/ parser # NoParser) =>
          StringAt(input).wf /\ StringAt(input).found = VERSION

\* a buffer holding the string "0.2" has been refused
C12_Witness ==
    /\ Called("new") /\ Failed
    /\ input = <<3, 48, 46, 50>>
    /\ last.res.err = [at |-> 0, kind |-> "InvalidVersion", arg |-> <<48, 46, 50>>]
    /\ parser = NoParser

----------------------------------------------------------------------------
(* Claims about the Type section, under Spec *)

\* the payload of the section held
Payload == SubSeq(input, hist.scope.lo + 1, hist.scope.hi)

\* the table of ValType codes of the wire grammar, code c at index c + 1
ValTypeTable ==
    <<"String", "S8", "S16", "S32", "S64", "U8", "U16", "U32", "U64", "F32", "F64">>

\* a count of the wire grammar at index i of s: a varint small enough to
\* be a count of bytes of s
RefCount(s, i) ==
    LET rest == SubSeq(s, i, Len(s))
    IN [ok |-> /\ IsLeb64(rest) /\ LebValue(rest).hi = 0 /\ LebValue(rest).mid = 0
               /\ LebValue(rest).lo <= Len(s),
        n |-> LebValue(rest).lo,
        next |-> i + LebLen(rest)]

\* (count:varint, ValType*) at index i of s
RefValTypes(s, i) ==
    LET c == RefCount(s, i)
        ok == /\ c.ok /\ c.next + c.n - 1 <= Len(s)
              /\ \A k \in c.next..(c.next + c.n - 1) : s[k] \in 0..10
    IN [ok |-> ok,
        val |-> IF ok THEN [k \in 1..c.n |-> ValTypeTable[s[c.next + k - 1] + 1]]
                ELSE <<>>,
        next |-> c.next + c.n]

\* n Type items from index i of s on, acc the Types before them
RECURSIVE RefTypeItems(_, _, _, _)
RefTypeItems(s, i, n, acc) ==
    IF n = 0 THEN [ok |-> i = Len(s) + 1, items |-> acc]
    ELSE LET params == RefValTypes(s, i)
         IN IF ~params.ok THEN [ok |-> FALSE, items |-> acc]
            ELSE LET results == RefValTypes(s, params.next)
                 IN IF ~results.ok THEN [ok |-> FALSE, items |-> acc]
                    ELSE RefTypeItems(s, results.next, n - 1,
                            Append(acc, [params |-> params.val,
                                         results |-> results.val]))

\* the payload s as count n and n Type items, nothing after them
RefTypeSection(s) ==
    IF RefCount(s, 1).ok
    THEN RefTypeItems(s, RefCount(s, 1).next, RefCount(s, 1).n, <<>>)
    ELSE [ok |-> FALSE, items |-> <<>>]

\* C13: for a Type section whose payload is a count n and n well-formed
\* Type items, the k-th call of next() yields the k-th Type of the wire
\* grammar, its params and results the images of their codes under the
\* table, params read first, and after n Types the iteration ends; no call
\* fails.
C13_TypeSection ==
    (/\ sec # None /\ sec.kind = "Type" /\ Called("next")
     /\ RefTypeSection(Payload).ok)
    => /\ hist.errors = 0
       /\ hist.yielded <= Len(RefTypeSection(Payload).items)
       /\ IF U32IsZero(last.cnt)
          THEN ~last.some /\ hist.yielded = Len(RefTypeSection(Payload).items)
          ELSE /\ last.some /\ last.res.ok
               /\ hist.yielded = hist.attempts
               /\ last.res.val = RefTypeSection(Payload).items[hist.attempts]

\* the one Type of scenario A has been yielded
C13_Witness ==
    /\ sec # None /\ sec.kind = "Type" /\ Called("next")
    /\ input = Header \o <<0, 4, 1, 0, 1, 7>>
    /\ last.some /\ last.res.ok
    /\ last.res.val = [params |-> <<>>, results |-> <<"U32">>]
    /\ hist.yielded = 1 /\ sec.parser.bytes.len = 0

----------------------------------------------------------------------------
(* Claims about every parser of a caller, under Spec *)

\* the position of p is the offset in the buffer of the first byte left
AtOffset(p) == p.pos = p.bytes.off

\* C14: the position of every parser a caller can come to hold (its own,
\* the one of the section iterator, the one of the Func, those of the
\* Instructions iterators) is the offset in the input of the first byte of
\* the parser's remaining range, and position plus remaining length is the
\* end offset of the parser's scope, also after calls that failed.
C14_PositionIsOffset ==
    /\ parser # NoParser =>
          AtOffset(parser) /\ parser.pos + parser.bytes.len = Len(input)
    /\ sec # None =>
          /\ AtOffset(sec.parser)
          /\ sec.parser.pos + sec.parser.bytes.len = hist.scope.hi
          /\ func # None =>
                /\ AtOffset(func.parser)
                /\ \A i \in Iters : its[i] # NoIter =>
                      /\ AtOffset(its[i].parser)
                      /\ its[i].parser.pos + its[i].parser.bytes.len
                            = func.parser.pos + func.parser.bytes.len

----------------------------------------------------------------------------
(* Claims about the end of an iteration, under Spec *)

\* the section iterator held is at its end: next() returns None
SectionEnded == sec # None /\ U32IsZero(sec.cnt) /\ sec.parser.bytes.len = 0

\* the i-th Instructions iterator has returned None
InstrEnded(i) == its[i] # NoIter /\ its[i].status = "ended"

SectionEndStable ==
    (SectionEnded /\ last'.op = "next") => (~last'.some /\ sec' = sec)

\* C15, as stated: an iterator that has returned None returns None on
\* every later call, the section iterators and the Instructions iterator
\* alike.
C15_EndStable_AsStated ==
    [][/\ SectionEndStable
       /\ \A i \in Iters :
             (InstrEnded(i) /\ last'.op = "inext" /\ last'.it = i) => ~last'.some]_vars

\* C15, amended: a section iterator that has returned None returns None on
\* every later call.  An Instructions iterator returns None only with its
\* parser left empty, and on an empty parser every later call returns the
\* error UnexpectedEof at the parser's position, never None and never an
\* instruction, and leaves the iterator's parser as it is.
C15_EndStable ==
    /\ []((Called("inext") /\ ~last.some) => is_empty(its[last.it].parser))
    /\ [][/\ SectionEndStable
          /\ \A i \in Iters :
                (/\ its[i] # NoIter /\ is_empty(its[i].parser)
                 /\ last'.op = "inext" /\ last'.it = i) =>
                    /\ last'.some /\ ~last'.res.ok
                    /\ last'.res.err = [at |-> its[i].parser.pos,
                                        kind |-> "UnexpectedEof", arg |-> NoVal]
                    /\ its'[i].parser = its[i].parser]_vars

\* an Instructions iterator has been called after it returned None, and
\* the section iterator it came from after it returned None
C15_Witness ==
    /\ \E i \in Iters :
          /\ InstrEnded(i) /\ its[i].out # <<>>
          /\ Called("inext") /\ last.it = i /\ last.pre.bytes.len = 0
    /\ SectionEnded /\ hist.yielded = 1 /\ hist.errors = 0

----------------------------------------------------------------------------
(* SpecLoop: a caller that reads the whole input and stops at the first     *)
(* error:                                                                   *)
(*   let mut parser = Parser::new(bytes)?;                                  *)
(*   while !parser.is_empty() {                                             *)
(*       for item in parser.section()? {          // each kind of section   *)
(*           for instr in item?.instrs() { instr?; }     // Func items only *)
(*       }                                                                  *)
(*   }                                                                      *)
(* hist holds the caller's place in the loop and the calls it has made on   *)
(* the iterator it is in; its[1] is the Instructions iterator.              *)

Loop(pc) == [pc |-> pc, steps |-> 0, scalls |-> 0, calls |-> 0, icalls |-> 0,
             declared |-> U32Of(0), body |-> 0]

InitLoop ==
    /\ input \in Inputs
    /\ parser = NoParser
    /\ sec = None
    /\ func = None
    /\ its = [i \in Iters |-> NoIter]
    /\ last = NoCall
    /\ hist = Loop("new")
    /\ instr = None /\ vec = <<>>

LoopNewStep(r) ==
    /\ parser' = r.p
    /\ last' = [op |-> "new", pre |-> NoParser, res |-> r]
    /\ hist' = [hist EXCEPT !.pc = IF r.ok THEN "sections" ELSE "failed",
                            !.steps = @ + 1]
    /\ UNCHANGED <<input, sec, func, its, instr, vec>>

\* Parser::new(bytes)?
LoopNew ==
    /\ hist.pc = "new"
    /\ LoopNewStep(ParserNew(input))

\* while !parser.is_empty(), left
LoopDone ==
    /\ hist.pc = "sections"
    /\ is_empty(parser)
    /\ hist' = [hist EXCEPT !.pc = "done", !.steps = @ + 1]
    /\ last' = [op |-> "is_empty", pre |-> parser, res |-> NoVal]
    /\ UNCHANGED <<input, parser, sec, func, its, instr, vec>>

LoopSectionStep(r) ==
    /\ parser' = r.p
    /\ last' = [op |-> "section", pre |-> parser, res |-> r]
    /\ sec' = IF r.ok THEN r.val ELSE sec
    /\ hist' = IF r.ok
               THEN [hist EXCEPT !.pc = "items", !.steps = @ + 1, !.scalls = @ + 1,
                                 !.calls = 0, !.declared = r.val.cnt]
               ELSE [hist EXCEPT !.pc = "failed", !.steps = @ + 1, !.scalls = @ + 1]
    /\ UNCHANGED <<input, func, its, instr, vec>>

\* while !parser.is_empty(), entered: parser.section()?
LoopSection ==
    /\ hist.pc = "sections"
    /\ ~is_empty(parser)
    /\ LoopSectionStep(ParseSection(input, parser))

LoopItemStep(n) ==
    /\ sec' = [sec EXCEPT !.parser = n.res.p, !.cnt = n.cnt]
    /\ last' = [op |-> "next", pre |-> sec.parser, cnt |-> sec.cnt,
                some |-> n.some, res |-> n.res]
    /\ IF n.some /\ n.res.ok /\ sec.kind = "Func"
       THEN /\ func' = n.res.val
            /\ its' = [its EXCEPT ![1] = [parser |-> n.res.val.parser, out |-> <<>>,
                                          status |-> "running", err |-> NoErr]]
            /\ hist' = [hist EXCEPT !.pc = "instrs", !.steps = @ + 1,
                                    !.calls = @ + 1, !.icalls = 0,
                                    !.body = n.res.val.parser.bytes.len]
       ELSE /\ UNCHANGED <<func, its>>
            /\ hist' = [hist EXCEPT !.steps = @ + 1, !.calls = @ + 1,
                                    !.pc = IF ~n.some THEN "sections"
                                           ELSE IF ~n.res.ok THEN "failed" ELSE @]
    /\ UNCHANGED <<input, parser, instr, vec>>

\* for item in section: next() on the section iterator, item?, and for a
\* Func item.instrs()
LoopItem ==
    /\ hist.pc = "items"
    /\ LoopItemStep(parse_next_in_section(input, sec.parser, sec.cnt, sec.kind))

LoopInstrStep(n) ==
    /\ its' = [its EXCEPT ![1] =
                 IF ~n.some THEN [@ EXCEPT !.parser = n.res.p, !.status = "ended"]
                 ELSE IF ~n.res.ok
                 THEN [@ EXCEPT !.parser = n.res.p, !.status = "failed",
                                !.err = n.res.err]
                 ELSE [@ EXCEPT !.parser = n.res.p, !.out = Append(@, n.res.val)]]
    /\ last' = [op |-> "inext", pre |-> its[1].parser, it |-> 1,
                some |-> n.some, res |-> n.res]
    /\ hist' = [hist EXCEPT !.steps = @ + 1, !.icalls = @ + 1,
                            !.pc = IF ~n.some THEN "items"
                                   ELSE IF ~n.res.ok THEN "failed" ELSE @]
    /\ UNCHANGED <<input, parser, sec, func, instr, vec>>

\* for instr in func.instrs(): next() on the Instructions iterator, instr?
LoopInstr ==
    /\ hist.pc = "instrs"
    /\ LoopInstrStep(InstructionsNext(input, its[1].parser))

NextLoop == LoopNew \/ LoopDone \/ LoopSection \/ LoopItem \/ LoopInstr

SpecLoop == InitLoop /\ [][NextLoop]_vars

Finished == hist.pc \in {"done", "failed"}

\* what the caller does next, by its place in the loop
CanStep ==
    CASE hist.pc = "new" -> parser = NoParser
      [] hist.pc = "sections" -> parser # NoParser
      [] hist.pc = "items" -> sec # None
      [] hist.pc = "instrs" -> its[1] # NoIter
      [] OTHER -> FALSE

\* C16: a caller that stops at the first error finishes.  It makes at most
\* n + 1 calls on a section iterator of declared count n and at most k + 1
\* calls on an Instructions iterator over k instruction bytes, every
\* instruction yielded taking at least one byte off the iterator; every
\* successful section() leaves the caller's parser with fewer bytes, so
\* that there are no more section() calls than bytes; the caller makes at
\* most 2 * len + 2 steps on an input of len bytes, each of its places in
\* the loop has a next step, and where it stops the parser is empty or a
\* call has failed.
C16_BoundedProgress ==
    /\ [](/\ hist.calls > 0 => NatLeU32(hist.calls - 1, hist.declared)
          /\ hist.icalls <= hist.body + 1
          /\ hist.scalls <= Len(input)
          /\ hist.steps <= 2 * Len(input) + 2
          /\ ~Finished => CanStep
          /\ hist.pc = "done" => is_empty(parser)
          /\ hist.pc = "failed" => Failed)
    /\ [][/\ hist'.steps = hist.steps + 1
          /\ (last'.op = "section" /\ last'.res.ok) =>
                 parser'.bytes.len < parser.bytes.len
          /\ (last'.op = "inext" /\ last'.some /\ last'.res.ok) =>
                 its'[1].parser.bytes.len < its[1].parser.bytes.len
          /\ (last'.op = "next" /\ last'.some /\ last'.res.ok) =>
                 U32AddNat(sec'.cnt, 1) = sec.cnt]_vars

\* the caller has read a Func section and the section after it to the end:
\* two calls on the iterator of the one Func, two on its instructions
C16_Witness ==
    /\ hist.pc = "done"
    /\ hist.scalls = 2
    /\ func # None /\ hist.body = 3 /\ hist.icalls = 2
    /\ its[1].status = "ended"
    /\ is_empty(parser)

----------------------------------------------------------------------------
(* Claims about the Funcs iterator, under Spec *)

\* The Func item at the front of the bytes item, from the wire grammar, as
\* far as its length prefix and its type index go: fits, the prefix is a
\* varint of 32 bits and the bytes it counts are there; typed, these start
\* with a varint of 32 bits; end, the index after the item; instrs, the
\* index of the first byte after the type index; ty, the type index.
FuncHead(item) ==
    LET n == LebLen(item)
        fits == /\ IsLeb64(item) /\ AtMostU32Max(LebValue(item))
                /\ LebValue(item).mid = 0 /\ n + LebValue(item).lo <= Len(item)
        body == IF fits THEN SubSeq(item, n + 1, n + LebValue(item).lo) ELSE <<>>
    IN [fits |-> fits,
        typed |-> fits /\ IsLeb64(body) /\ AtMostU32Max(LebValue(body)),
        end |-> n + LebValue(item).lo,
        instrs |-> n + LebLen(body),
        ty |-> [lo |-> LebValue(body).lo, hi |-> LebValue(body).mid]]

FuncCalled == Called("next") /\ sec.kind = "Func" /\ ~U32IsZero(last.cnt)

\* C17: decoding a Func item reads the length prefix of the body and the
\* type index and nothing else.  It succeeds exactly if the prefix is a
\* varint whose bytes are there and the body starts with a varint, whatever
\* the bytes after the type index are; the Func then holds the type index
\* and these bytes, and the Funcs iterator stands right after the body,
\* also when the type index was refused.  No call on an Instructions
\* iterator, and no creation of one, changes the Funcs iterator.
C17_LazyFunc ==
    /\ [](FuncCalled =>
            /\ last.res.ok <=> FuncHead(Bytes(input, last.pre.bytes)).typed
            /\ FuncHead(Bytes(input, last.pre.bytes)).fits =>
                  sec.parser.bytes =
                     SliceFrom(last.pre.bytes, FuncHead(Bytes(input, last.pre.bytes)).end)
            /\ last.res.ok =>
                  /\ func = last.res.val
                  /\ func.ty = FuncHead(Bytes(input, last.pre.bytes)).ty
                  /\ func.parser.bytes =
                        Slice(last.pre.bytes.off
                                 + FuncHead(Bytes(input, last.pre.bytes)).instrs,
                              FuncHead(Bytes(input, last.pre.bytes)).end
                                 - FuncHead(Bytes(input, last.pre.bytes)).instrs))
    /\ [][last'.op \in InstructionCalls => (sec' = sec /\ hist' = hist)]_vars

\* a Func whose instruction bytes are a byte that is no opcode, an End and
\* a byte after it has been yielded
C17_Witness ==
    /\ FuncCalled /\ last.some /\ last.res.ok
    /\ Body = <<3, 2, 0>>
    /\ func.ty = U32Of(0)
    /\ sec.parser.bytes.len = 0 /\ U32IsZero(sec.cnt)

====
